---------------------------- MODULE Spec2Model ----------------------------
(***************************************************************************)
(* A model of the RDMA SR-IOV device plugin of src/server.go: the          *)
(* inventory build (configSriov, NewRdmaSriovDevPlugin), the lifecycle of  *)
(* the gRPC server and of its socket file (Start, Stop, Register, Serve,   *)
(* cleanup), the ListAndWatch stream with its stop and health channels,    *)
(* the health-signal senders (unhealthy) and Allocate.                     *)
(*                                                                         *)
(* What the model takes from the environment, as inputs:                   *)
(*   - the hardware: for each physical device name, which step of          *)
(*     configSriov fails (if any) and the virtual functions it has, each   *)
(*     with a MAC address or with a failing MAC lookup;                    *)
(*   - the file at the socket path before the program runs: none, a stale  *)
(*     file os.Remove can remove, or an entry os.Remove fails on; a file   *)
(*     net.Listen creates is one os.Remove can remove;                     *)
(*   - the outcome of net.Listen, of the self-dial probe and of the        *)
(*     registration with the kubelet.                                      *)
(* An emission is a message handed to s.Send; Send reads the device list   *)
(* one device at a time, with no lock (server.go takes none), so a         *)
(* concurrent ListAndWatch call can change a device's health while the     *)
(* message is being built.                                                 *)
(***************************************************************************)
EXTENDS Naturals, Sequences, FiniteSets

(***************************************************************************)
(* Bounds of the model.                                                    *)
(***************************************************************************)
MaxPfs == 3
MaxVfs == 2
MaxCalls == 2
MaxSignals == 2
MaxServers == 2
MaxReqs == 2

(***************************************************************************)
(* Program constants (server.go:17-27, 217) and the protocol's health      *)
(* values.                                                                 *)
(***************************************************************************)
RdmaDevices == "/dev/infiniband"
Healthy == "Healthy"
Unhealthy == "Unhealthy"

PfNames == {"ens1f0", "ens1f1"}
\* The identifier of a virtual function whose MAC lookup failed: the empty
\* string GetVfDefaultMacAddr returns beside its error, which line 84 drops.
NoMac == <<>>
Mac(pf, i) == <<pf, i>>

VARIABLES
    config,     \* UserConfig.PfNetdevices handed to NewRdmaSriovDevPlugin
    hw,         \* the hardware: pf name -> [res, vfs]
    built,      \* NewRdmaSriovDevPlugin has returned
    devs,       \* m.devs: a sequence of [ID, Health]
    stop,       \* m.stop: "open" or "closed"
    health,     \* m.health: "open" or "closed"
    server,     \* m.server: "nil" or "srv"
    serving,    \* the number of grpc servers serving (m.server's and leaked ones)
    sockFile,   \* the file at m.socket: "absent", "stale", "blocked", "bound"
    crashed,    \* the process has panicked
    mainpc,     \* the caller of Start/Stop/Register/Serve: "idle" or "register"
    hist,       \* the last lifecycle call that returned: [op, err, twice]
    pc,         \* per ListAndWatch call: "idle", "send", "select", "done"
    buf,        \* per ListAndWatch call: the message Send is building
    stream,     \* per ListAndWatch call: the messages handed to s.Send
    snd,        \* per unhealthy() caller: [st, dev]
    rpc         \* the last Allocate answered: [req, resp, err]

vars == <<config, hw, built, devs, stop, health, server, serving, sockFile,
          crashed, mainpc, hist, pc, buf, stream, snd, rpc>>

Calls == 1..MaxCalls
Senders == 1..MaxSignals

(***************************************************************************)
(* The inventory build.                                                    *)
(***************************************************************************)
ConfigResults == {"ok", "EnableSriov", "GetPfNetdevHandle", "ConfigVfs"}

\* The virtual functions a physical device can have (pfHandle.List): n of
\* them, VF i with its own MAC address or with a failing MAC lookup.
VfLists(pf) ==
    UNION { { [i \in 1..n |-> IF ok[i] THEN Mac(pf, i) ELSE NoMac] :
                ok \in [1..n -> BOOLEAN] } : n \in 0..MaxVfs }

Hardware == [PfNames -> [res : ConfigResults, vfs : UNION {VfLists(p) : p \in PfNames}]]

HardwareOk(h) == \A p \in PfNames : h[p].vfs \in VfLists(p)

Configs == UNION { [1..n -> PfNames] : n \in 0..MaxPfs }

\* configSriov: EnableSriov, GetPfNetdevHandle, ConfigVfs in this order; the
\* first failure returns (nil, err), success returns the handle.
configSriov(h, pfNetdevName) ==
    IF h[pfNetdevName].res = "EnableSriov" THEN [handle |-> <<>>, err |-> "EnableSriov"]
    ELSE IF h[pfNetdevName].res = "GetPfNetdevHandle"
         THEN [handle |-> <<>>, err |-> "GetPfNetdevHandle"]
    ELSE IF h[pfNetdevName].res = "ConfigVfs" THEN [handle |-> <<>>, err |-> "ConfigVfs"]
    ELSE [handle |-> h[pfNetdevName].vfs, err |-> "nil"]

\* dpDevice := &pluginapi.Device{ID: id, Health: pluginapi.Healthy}
NewDevice(id) == [ID |-> id, Health |-> Healthy]

\* The inner loop over pfHandle.List: one device per virtual function.
VfDevices(list) == [i \in 1..Len(list) |-> NewDevice(list[i])]

\* A mutant of BuildDevs: the first device whose configuration fails ends
\* the loop (break for continue).
RECURSIVE BuildDevs_Break(_, _)
BuildDevs_Break(cfg, h) ==
    IF cfg = <<>> THEN <<>>
    ELSE LET r == configSriov(h, Head(cfg))
         IN  IF r.err # "nil" THEN <<>>
             ELSE VfDevices(r.handle) \o BuildDevs_Break(Tail(cfg), h)

\* The outer loop over config.PfNetdevices: a device whose configuration
\* fails is skipped (continue), the others' virtual functions are appended.
RECURSIVE BuildDevs(_, _)
BuildDevs(cfg, h) ==
    IF cfg = <<>> THEN <<>>
    ELSE LET r == configSriov(h, Head(cfg))
         IN  (IF r.err # "nil" THEN <<>> ELSE VfDevices(r.handle))
                 \o BuildDevs(Tail(cfg), h)

\* NewRdmaSriovDevPlugin: an empty configuration yields no device.
NewRdmaSriovDevPlugin(cfg, h) ==
    [devs   |-> IF Len(cfg) = 0 THEN <<>> ELSE BuildDevs(cfg, h),
     stop   |-> "open",
     health |-> "open",
     server |-> "nil"]

(***************************************************************************)
(* The socket file and the lifecycle: cleanup, Start, Stop, Register.      *)
(***************************************************************************)
\* cleanup: os.Remove(m.socket); a missing file is no error, any other
\* failure is returned and the entry stays.
cleanup(file) ==
    IF file = "blocked" THEN [file |-> file, err |-> "remove"]
    ELSE [file |-> "absent", err |-> "nil"]

StartEnv == {"ok", "listen", "probe"}

\* A mutant of Start: the server is created and serving before net.Listen
\* is known to have failed.
Start_ServerFirst(file, srv, n, env) ==
    LET c == cleanup(file)
    IN  IF c.err # "nil"
        THEN [sockFile |-> c.file, server |-> srv, serving |-> n, err |-> c.err]
        ELSE IF env = "listen"
        THEN [sockFile |-> c.file, server |-> "srv", serving |-> n + 1,
              err |-> "listen"]
        ELSE [sockFile |-> "bound", server |-> "srv", serving |-> n + 1,
              err |-> IF env = "probe" THEN "probe" ELSE "nil"]

\* Start: cleanup, net.Listen, grpc.NewServer and go Serve, the self-dial.
\* The result is the plugin's fields after the call and the error returned.
Start(file, srv, n, env) ==
    LET c == cleanup(file)
    IN  IF c.err # "nil"
        THEN [sockFile |-> c.file, server |-> srv, serving |-> n, err |-> c.err]
        ELSE IF env = "listen"
        THEN [sockFile |-> c.file, server |-> srv, serving |-> n, err |-> "listen"]
        ELSE [sockFile |-> "bound", server |-> "srv", serving |-> n + 1,
              err |-> IF env = "probe" THEN "probe" ELSE "nil"]

\* A mutant of closeStop: the close is missing.
closeStop_Noop(ch) == ch

\* close(m.stop): closing a closed channel panics.
closeStop(ch) == IF ch = "closed" THEN "panic" ELSE "closed"

\* A mutant of Stop: the nil check of the server is missing.
Stop_NoNilCheck(file, srv, n, ch) ==
    IF srv = "nil" \/ closeStop(ch) = "panic"
    THEN [sockFile |-> file, server |-> "nil",
          serving |-> IF n > 0 THEN n - 1 ELSE 0, stop |-> ch, err |-> "panic"]
    ELSE [sockFile |-> cleanup(file).file, server |-> "nil", serving |-> n - 1,
          stop |-> closeStop(ch), err |-> cleanup(file).err]

\* A mutant of Stop: the socket file is cleaned up also when the server is
\* nil.
Stop_AlwaysCleanup(file, srv, n, ch) ==
    IF srv = "nil"
    THEN [sockFile |-> cleanup(file).file, server |-> srv, serving |-> n,
          stop |-> ch, err |-> cleanup(file).err]
    ELSE IF closeStop(ch) = "panic"
    THEN [sockFile |-> file, server |-> "nil", serving |-> n - 1, stop |-> ch,
          err |-> "panic"]
    ELSE [sockFile |-> cleanup(file).file, server |-> "nil", serving |-> n - 1,
          stop |-> closeStop(ch), err |-> cleanup(file).err]

\* Stop: nothing for a nil server; otherwise server.Stop(), m.server = nil,
\* close(m.stop) and cleanup. A panic in close leaves cleanup undone.
Stop(file, srv, n, ch) ==
    IF srv = "nil"
    THEN [sockFile |-> file, server |-> srv, serving |-> n, stop |-> ch,
          err |-> "nil"]
    ELSE IF closeStop(ch) = "panic"
    THEN [sockFile |-> file, server |-> "nil", serving |-> n - 1, stop |-> ch,
          err |-> "panic"]
    ELSE LET c == cleanup(file)
         IN  [sockFile |-> c.file, server |-> "nil", serving |-> n - 1,
              stop |-> closeStop(ch), err |-> c.err]

RegisterEnv == {"ok", "dial", "register"}

\* Register: dial the kubelet, then the Register call; either may fail.
Register(env) == IF env = "ok" THEN "nil" ELSE env

\* What the caller has seen last: the call that returned, its error, and
\* whether the call before it was the same operation.
NoCall == [op |-> "none", err |-> "nil", twice |-> FALSE]
Returned(h, op, err) == [op |-> op, err |-> err, twice |-> (h.op = op)]

(***************************************************************************)
(* The device list under a health signal, and Allocate's response.         *)
(***************************************************************************)
\* Mutants of MarkUnhealthy: every device is marked; the health is flipped,
\* so that a second signal recovers the device; the device is replaced by a
\* new one, which has no ID.
MarkUnhealthy_All(ds, i) ==
    [k \in 1..Len(ds) |-> [ds[k] EXCEPT !.Health = Unhealthy]]
MarkUnhealthy_Toggle(ds, i) ==
    [ds EXCEPT ![i].Health = IF @ = Healthy THEN Unhealthy ELSE Healthy]
MarkUnhealthy_Replace(ds, i) ==
    [ds EXCEPT ![i] = [ID |-> NoMac, Health |-> Unhealthy]]

\* d.Health = pluginapi.Unhealthy, where d points at device i of m.devs.
MarkUnhealthy(ds, i) == [ds EXCEPT ![i].Health = Unhealthy]

\* A mutant of Allocate: a container that asks for no device gets no
\* response.
Allocate_SkipEmpty(r) ==
    [resp |-> [i \in 1..Len(SelectSeq(r, LAMBDA ids : ids # {})) |->
                 [Devices |-> << [HostPath |-> RdmaDevices,
                                  ContainerPath |-> RdmaDevices,
                                  Permissions |-> "rwm"] >>]],
     err |-> "nil"]

\* Allocate: one response per container request, each with the one device
\* spec of the RDMA device directory; the devices asked for are not read.
Allocate(r) ==
    [resp |-> [i \in 1..Len(r) |->
                 [Devices |-> << [HostPath |-> RdmaDevices,
                                  ContainerPath |-> RdmaDevices,
                                  Permissions |-> "rwm"] >>]],
     err |-> "nil"]

\* An AllocateRequest: per container, the device IDs it asks for.
ReqIds == {"vf-a", "vf-b"}
Requests == UNION { [1..k -> SUBSET ReqIds] : k \in 0..MaxReqs }
\* The requests the lifecycle is explored with.
SpecRequests == { <<>>, <<{"vf-a"}>> }
NoAllocate == [req |-> <<>>, resp |-> <<>>, err |-> "none"]

\* GetDevicePluginOptions and PreStartContainer answer with constants.
DevicePluginOptions == [PreStartRequired |-> FALSE]
PreStartContainerResponse == <<>>

(***************************************************************************)
(* The initial states.                                                     *)
(***************************************************************************)
Fresh ==
    /\ stop = "open" /\ health = "open" /\ server = "nil"
    /\ serving = 0
    /\ sockFile \in {"absent", "stale", "blocked"}
    /\ crashed = FALSE
    /\ mainpc = "idle"
    /\ hist = NoCall
    /\ pc = [c \in Calls |-> "idle"]
    /\ buf = [c \in Calls |-> <<>>]
    /\ stream = [c \in Calls |-> <<>>]
    /\ snd = [s \in Senders |-> [st |-> "idle", dev |-> 0]]
    /\ rpc = NoAllocate

\* The machine the lifecycle is explored on: the first configured device
\* fails SR-IOV enablement, the second has two virtual functions.
SpecHardware ==
    { [p \in PfNames |->
         IF p = "ens1f0"
         THEN [res |-> "ok", vfs |-> <<Mac(p, 1), Mac(p, 2)>>]
         ELSE [res |-> "EnableSriov", vfs |-> <<>>]] }

SpecConfigs == { <<"ens1f1", "ens1f0">> }

\* The state after NewRdmaSriovDevPlugin(config) has returned.
Init ==
    /\ config \in SpecConfigs
    /\ hw \in SpecHardware
    /\ built = TRUE
    /\ devs = NewRdmaSriovDevPlugin(config, hw).devs
    /\ Fresh

\* The state before NewRdmaSriovDevPlugin, over every configuration and
\* every machine within the bounds.
BuildInit ==
    /\ config \in Configs
    /\ hw \in {h \in Hardware : HardwareOk(h)}
    /\ built = FALSE
    /\ devs = <<>>
    /\ Fresh

New ==
    /\ ~built
    /\ built' = TRUE
    /\ devs' = NewRdmaSriovDevPlugin(config, hw).devs
    /\ stop' = NewRdmaSriovDevPlugin(config, hw).stop
    /\ health' = NewRdmaSriovDevPlugin(config, hw).health
    /\ server' = NewRdmaSriovDevPlugin(config, hw).server
    /\ UNCHANGED <<config, hw, serving, sockFile, crashed, mainpc, hist, pc,
                   buf, stream, snd, rpc>>

(***************************************************************************)
(* The lifecycle calls. One caller makes them, one at a time.              *)
(***************************************************************************)
Running == built /\ ~crashed

StartCall(env) ==
    /\ Running /\ mainpc = "idle" /\ serving < MaxServers
    /\ LET r == Start(sockFile, server, serving, env)
       IN  /\ sockFile' = r.sockFile
           /\ server' = r.server
           /\ serving' = r.serving
           /\ hist' = Returned(hist, "Start", r.err)
    /\ UNCHANGED <<config, hw, built, devs, stop, health, crashed, mainpc, pc,
                   buf, stream, snd, rpc>>

StopCall ==
    /\ Running /\ mainpc = "idle"
    /\ LET r == Stop(sockFile, server, serving, stop)
       IN  /\ sockFile' = r.sockFile
           /\ server' = r.server
           /\ serving' = r.serving
           /\ stop' = r.stop
           /\ crashed' = (r.err = "panic")
           /\ hist' = IF r.err = "panic" THEN hist
                      ELSE Returned(hist, "Stop", r.err)
    /\ UNCHANGED <<config, hw, built, devs, health, mainpc, pc, buf, stream,
                   snd, rpc>>

RegisterCall(env) ==
    /\ Running /\ mainpc = "idle"
    /\ hist' = Returned(hist, "Register", Register(env))
    /\ UNCHANGED <<config, hw, built, devs, stop, health, server, serving,
                   sockFile, crashed, mainpc, pc, buf, stream, snd, rpc>>

\* A mutant of ServeStart: Serve goes on to Register whatever Start
\* returned.
ServeStart_Always(env) ==
    /\ Running /\ mainpc = "idle" /\ serving < MaxServers
    /\ LET r == Start(sockFile, server, serving, env)
       IN  /\ sockFile' = r.sockFile
           /\ server' = r.server
           /\ serving' = r.serving
    /\ hist' = hist
    /\ mainpc' = "register"
    /\ UNCHANGED <<config, hw, built, devs, stop, health, crashed, pc, buf,
                   stream, snd, rpc>>

\* Serve, up to the return of Start: a failed Start ends Serve.
ServeStart(env) ==
    /\ Running /\ mainpc = "idle" /\ serving < MaxServers
    /\ LET r == Start(sockFile, server, serving, env)
       IN  /\ sockFile' = r.sockFile
           /\ server' = r.server
           /\ serving' = r.serving
           /\ IF r.err # "nil"
              THEN /\ hist' = Returned(hist, "Serve", r.err)
                   /\ mainpc' = mainpc
              ELSE /\ hist' = hist
                   /\ mainpc' = "register"
    /\ UNCHANGED <<config, hw, built, devs, stop, health, crashed, pc, buf,
                   stream, snd, rpc>>

\* A mutant of ServeRegister: the error of Register is returned without the
\* Stop.
ServeRegister_NoStop(env) ==
    /\ Running /\ mainpc = "register"
    /\ hist' = Returned(hist, "Serve", Register(env))
    /\ mainpc' = "idle"
    /\ UNCHANGED <<config, hw, built, devs, stop, health, server, serving,
                   sockFile, crashed, pc, buf, stream, snd, rpc>>

\* Serve, from Register on: a failed Register is followed by Stop, whose
\* error is dropped, and Serve returns Register's error.
ServeRegister(env) ==
    /\ Running /\ mainpc = "register"
    /\ IF Register(env) = "nil"
       THEN /\ hist' = Returned(hist, "Serve", "nil")
            /\ mainpc' = "idle"
            /\ UNCHANGED <<sockFile, server, serving, stop, crashed>>
       ELSE LET r == Stop(sockFile, server, serving, stop)
            IN  /\ sockFile' = r.sockFile
                /\ server' = r.server
                /\ serving' = r.serving
                /\ stop' = r.stop
                /\ crashed' = (r.err = "panic")
                /\ hist' = IF r.err = "panic" THEN hist
                           ELSE Returned(hist, "Serve", Register(env))
                /\ mainpc' = IF r.err = "panic" THEN mainpc ELSE "idle"
    /\ UNCHANGED <<config, hw, built, devs, health, pc, buf, stream, snd, rpc>>

(***************************************************************************)
(* ListAndWatch: one goroutine per call.                                   *)
(***************************************************************************)
\* The server dispatches a ListAndWatch call to a new goroutine.
ListAndWatchCall(c) ==
    /\ Running /\ serving > 0
    /\ pc[c] = "idle"
    /\ IF c = 1 THEN TRUE ELSE pc[c - 1] # "idle"
    /\ pc' = [pc EXCEPT ![c] = "send"]
    /\ buf' = [buf EXCEPT ![c] = <<>>]
    /\ UNCHANGED <<config, hw, built, devs, stop, health, server, serving,
                   sockFile, crashed, mainpc, hist, stream, snd, rpc>>

\* The device Send reads next into the message it builds.
ReadDevice(ds, k) == ds[k]

\* s.Send(&ListAndWatchResponse{Devices: m.devs}): the devices are read one
\* by one; reading the last one completes the message, which is on the
\* stream, and the call goes to its select.
ListAndWatchSend(c) ==
    /\ Running
    /\ pc[c] = "send"
    /\ IF Len(buf[c]) + 1 < Len(devs)
       THEN /\ buf' = [buf EXCEPT ![c] = Append(@, ReadDevice(devs, Len(@) + 1))]
            /\ UNCHANGED <<pc, stream>>
       ELSE /\ stream' = [stream EXCEPT ![c] =
                            Append(@, IF Len(devs) = 0 THEN <<>>
                                      ELSE Append(buf[c], ReadDevice(devs, Len(devs))))]
            /\ buf' = [buf EXCEPT ![c] = <<>>]
            /\ pc' = [pc EXCEPT ![c] = "select"]
    /\ UNCHANGED <<config, hw, built, devs, stop, health, server, serving,
                   sockFile, crashed, mainpc, hist, snd, rpc>>

\* case <-m.stop: a receive from the closed channel; the call returns.
ListAndWatchStop(c) ==
    /\ Running
    /\ pc[c] = "select"
    /\ stop = "closed"
    /\ pc' = [pc EXCEPT ![c] = "done"]
    /\ UNCHANGED <<config, hw, built, devs, stop, health, server, serving,
                   sockFile, crashed, mainpc, hist, buf, stream, snd, rpc>>

\* A mutant of ListAndWatchHealth: the signal is a broadcast, the sender
\* stays for the other calls to receive it too.
ListAndWatchHealth_Broadcast(c, s) ==
    /\ Running
    /\ pc[c] = "select"
    /\ snd[s].st = "blocked"
    /\ devs' = MarkUnhealthy(devs, snd[s].dev)
    /\ pc' = [pc EXCEPT ![c] = "send"]
    /\ buf' = [buf EXCEPT ![c] = <<>>]
    /\ UNCHANGED <<config, hw, built, stop, health, server, serving, sockFile,
                   crashed, mainpc, hist, stream, snd, rpc>>

\* case d := <-m.health: the rendezvous with a blocked sender, which
\* returns; the device is marked and the list sent again.
ListAndWatchHealth(c, s) ==
    /\ Running
    /\ pc[c] = "select"
    /\ snd[s].st = "blocked"
    /\ snd' = [snd EXCEPT ![s].st = "returned"]
    /\ devs' = MarkUnhealthy(devs, snd[s].dev)
    /\ pc' = [pc EXCEPT ![c] = "send"]
    /\ buf' = [buf EXCEPT ![c] = <<>>]
    /\ UNCHANGED <<config, hw, built, stop, health, server, serving, sockFile,
                   crashed, mainpc, hist, stream, rpc>>

\* A mutant of unhealthy: the health channel has a buffer, the send returns
\* at once.
unhealthy_Buffered(s, d) ==
    /\ Running
    /\ snd[s].st = "idle"
    /\ IF s = 1 THEN TRUE ELSE snd[s - 1].st # "idle"
    /\ d \in 1..Len(devs)
    /\ snd' = [snd EXCEPT ![s] = [st |-> "returned", dev |-> d]]
    /\ UNCHANGED <<config, hw, built, devs, stop, health, server, serving,
                   sockFile, crashed, mainpc, hist, pc, buf, stream, rpc>>

\* unhealthy(dev): m.health <- dev blocks until a ListAndWatch receives it.
unhealthy(s, d) ==
    /\ Running
    /\ snd[s].st = "idle"
    /\ IF s = 1 THEN TRUE ELSE snd[s - 1].st # "idle"
    /\ d \in 1..Len(devs)
    /\ snd' = [snd EXCEPT ![s] = [st |-> "blocked", dev |-> d]]
    /\ UNCHANGED <<config, hw, built, devs, stop, health, server, serving,
                   sockFile, crashed, mainpc, hist, pc, buf, stream, rpc>>

(***************************************************************************)
(* The unary calls.                                                        *)
(***************************************************************************)
\* A mutant of AllocateCall: the devices a container asks for are marked
\* Unhealthy as they are handed out.
AllocateCall_Mark(r) ==
    /\ Running /\ serving > 0
    /\ rpc' = [req |-> r, resp |-> Allocate(r).resp, err |-> Allocate(r).err]
    /\ devs' = [k \in 1..Len(devs) |->
                  IF k <= Len(r) THEN [devs[k] EXCEPT !.Health = Unhealthy]
                  ELSE devs[k]]
    /\ UNCHANGED <<config, hw, built, stop, health, server, serving,
                   sockFile, crashed, mainpc, hist, pc, buf, stream, snd>>

AllocateCall(r) ==
    /\ Running /\ serving > 0
    /\ rpc' = [req |-> r, resp |-> Allocate(r).resp, err |-> Allocate(r).err]
    /\ UNCHANGED <<config, hw, built, devs, stop, health, server, serving,
                   sockFile, crashed, mainpc, hist, pc, buf, stream, snd>>

\* Both read and write nothing of the plugin.
GetDevicePluginOptions ==
    /\ Running /\ serving > 0
    /\ DevicePluginOptions.PreStartRequired = FALSE
    /\ UNCHANGED vars

PreStartContainer ==
    /\ Running /\ serving > 0
    /\ PreStartContainerResponse = <<>>
    /\ UNCHANGED vars

(***************************************************************************)
(* The specifications.                                                     *)
(***************************************************************************)
Next ==
    \/ \E env \in StartEnv : StartCall(env)
    \/ StopCall
    \/ \E env \in RegisterEnv : RegisterCall(env)
    \/ \E env \in StartEnv : ServeStart(env)
    \/ \E env \in RegisterEnv : ServeRegister(env)
    \/ \E c \in Calls : ListAndWatchCall(c)
    \/ \E c \in Calls : ListAndWatchSend(c)
    \/ \E c \in Calls : ListAndWatchStop(c)
    \/ \E c \in Calls, s \in Senders : ListAndWatchHealth(c, s)
    \/ \E s \in Senders, d \in 1..Len(devs) : unhealthy(s, d)
    \/ \E r \in SpecRequests : AllocateCall(r)
    \/ GetDevicePluginOptions
    \/ PreStartContainer

Spec == Init /\ [][Next]_vars

\* The scheduling the liveness of a ListAndWatch call rests on: its
\* goroutine keeps running (Send completes), and its select, which picks at
\* random among the ready cases, does not pass over the closed stop channel
\* for ever.
Fairness ==
    \A c \in Calls : /\ WF_vars(ListAndWatchSend(c))
                     /\ SF_vars(ListAndWatchStop(c))

LiveSpec == Init /\ [][Next]_vars /\ Fairness

\* The inventory build alone, over every input within the bounds.
BuildNext == New

BuildSpec == BuildInit /\ [][BuildNext]_vars

\* The lifecycle alone: the calls one caller makes on the plugin.
LifecycleNext ==
    \/ \E env \in StartEnv : StartCall(env)
    \/ StopCall
    \/ \E env \in RegisterEnv : RegisterCall(env)
    \/ \E env \in StartEnv : ServeStart(env)
    \/ \E env \in RegisterEnv : ServeRegister(env)

LifecycleSpec == Init /\ [][LifecycleNext]_vars

\* The started plugin answering Allocate, over every request within the
\* bounds, while the kubelet's ListAndWatch call and health signals change
\* the devices.
AllocNext ==
    \/ StartCall("ok")
    \/ ListAndWatchCall(1)
    \/ ListAndWatchSend(1)
    \/ \E s \in Senders : ListAndWatchHealth(1, s)
    \/ \E s \in Senders, d \in 1..Len(devs) : unhealthy(s, d)
    \/ \E r \in Requests : AllocateCall(r)

AllocSpec == Init /\ [][AllocNext]_vars

(***************************************************************************)
(* The claims.                                                             *)
(***************************************************************************)
Last(q) == q[Len(q)]
Consumed == Cardinality({s \in Senders : snd[s].st = "returned"})
HealthOf(ds) == [i \in 1..Len(ds) |-> ds[i].Health]
IdsOf(ds) == [i \in 1..Len(ds) |-> ds[i].ID]

\* C1: on every ListAndWatch call the first message put on the stream
\* equals the device list as it is when the message is emitted (same
\* devices, same order, same health), and a call that waits in its select,
\* or has returned, has emitted it.
C1_FirstEmissionIsSnapshot ==
    [][\A c \in Calls :
          /\ (Len(stream[c]) = 0 /\ Len(stream'[c]) = 1) => stream'[c][1] = devs'
          /\ pc'[c] \in {"select", "done"} => Len(stream'[c]) >= 1]_vars


\* C2: with one ListAndWatch call open, a health signal for device D that
\* the call consumes marks D Unhealthy and leaves every other device's
\* health (and every ID) as it was, also when D was Unhealthy already, and
\* is followed by exactly one emission, of the list as it then is: in its
\* select the call has emitted 1 + n messages after n consumed signals, and
\* while it sends, one less.
C2_OneEmissionPerSignal ==
    [][\A c \in Calls :
          (\A o \in Calls \ {c} : pc[o] = "idle" /\ pc'[o] = "idle") =>
             /\ pc'[c] \in {"select", "done"} =>
                   /\ Len(stream'[c]) = 1 + Consumed'
                   /\ Last(stream'[c]) = devs'
             /\ pc'[c] = "send" => Len(stream'[c]) = Consumed'
             /\ \A s \in Senders :
                   (snd[s].st = "blocked" /\ snd'[s].st = "returned") =>
                      /\ pc[c] = "select" /\ pc'[c] = "send"
                      /\ IdsOf(devs') = IdsOf(devs)
                      /\ HealthOf(devs') =
                            [i \in 1..Len(devs) |->
                               IF i = snd[s].dev THEN Unhealthy
                               ELSE devs[i].Health]]_vars

\* C2's case: the only open call has consumed two signals for the same
\* device and has emitted three messages, the last two alike.
C2_Witness ==
    /\ \A o \in Calls \ {1} : pc[o] = "idle"
    /\ pc[1] = "select"
    /\ Len(stream[1]) = 3
    /\ \A s \in Senders : snd[s].st = "returned" /\ snd[s].dev = 1
    /\ stream[1][2] = stream[1][3]
    /\ stream[1][1] # stream[1][2]

\* C3: no device is Unhealthy before a health signal has been consumed
\* (every device is built Healthy), and in every step, whatever the
\* interleaving of the lifecycle calls, the streams, Allocate and the
\* signals, a device that is Unhealthy stays Unhealthy.
C3_HealthMonotonic ==
    [][/\ Consumed = 0 => \A i \in 1..Len(devs) : devs[i].Health = Healthy
       /\ \A i \in 1..Len(devs) :
             devs[i].Health = Unhealthy =>
                i \in 1..Len(devs') /\ devs'[i].Health = Unhealthy]_vars

\* C3's case: a device was signalled twice and is Unhealthy, after the
\* plugin was stopped.
C3_Witness ==
    /\ \A s \in Senders : snd[s].st = "returned" /\ snd[s].dev = 2
    /\ HealthOf(devs) = <<Healthy, Unhealthy>>
    /\ hist.op = "Stop"
    /\ rpc # NoAllocate

\* C4: in every step after NewRdmaSriovDevPlugin has returned the device
\* list keeps its length and its sequence of IDs.
C4_IdsFixed ==
    [][built => IdsOf(devs') = IdsOf(devs)]_vars

\* C4's case: the health of both devices has changed, the IDs are those of
\* the build.
C4_Witness ==
    /\ HealthOf(devs) = <<Unhealthy, Unhealthy>>
    /\ IdsOf(devs) = <<Mac("ens1f0", 1), Mac("ens1f0", 2)>>


\* C5: Stop on a started plugin closes the stop channel, and from then on
\* every ListAndWatch call in flight eventually returns.
C5_StopUnblocksCalls ==
    /\ [][(StopCall /\ server # "nil") => stop' = "closed"]_vars
    /\ \A c \in Calls :
          [](stop = "closed" /\ pc[c] \in {"send", "select"} => <>(pc[c] = "done"))


\* C6: whenever the plugin has reached Stopped, by a Stop that returned or
\* by a Serve that returned an error, whatever its state before, the socket
\* file has been removed: neither a stale file nor the file Start bound is
\* at the socket path (an entry os.Remove fails on is left aside).
C6_CleanupOnStopped ==
    (/\ mainpc = "idle" /\ ~crashed
     /\ hist.op = "Stop" \/ (hist.op = "Serve" /\ hist.err # "nil"))
        => sockFile \notin {"stale", "bound"}

\* C7: a Stop that follows a Stop is a no-op: it returns nil, does not
\* panic, leaves the server, the count of serving servers, the stop
\* channel, the socket file, the devices and the streams as they are, and
\* after it no socket file bound by Start exists.
C7_SecondStopNoop ==
    [][(StopCall /\ hist.op = "Stop") =>
          /\ hist'.op = "Stop" /\ hist'.err = "nil" /\ hist'.twice
          /\ ~crashed'
          /\ UNCHANGED <<server, serving, stop, health, sockFile, devs, pc,
                         buf, stream, snd>>
          /\ sockFile' # "bound"]_vars

\* C7's case: Stop has returned twice in a row on a plugin whose stop
\* channel a first Stop closed, so that a Start had bound the socket.
C7_Witness ==
    /\ hist = [op |-> "Stop", err |-> "nil", twice |-> TRUE]
    /\ stop = "closed"
    /\ server = "nil"
    /\ sockFile = "absent"

\* C8: whatever the request and whatever the devices and their health,
\* Allocate returns no error and one response per container request, each
\* with exactly one device spec: the RDMA device directory as host path and
\* as container path, with the permissions "rwm".
C8_AllocateResponse ==
    rpc # NoAllocate =>
       /\ rpc.err = "nil"
       /\ Len(rpc.resp) = Len(rpc.req)
       /\ \A i \in 1..Len(rpc.resp) :
             rpc.resp[i] =
                [Devices |-> << [HostPath |-> "/dev/infiniband",
                                 ContainerPath |-> "/dev/infiniband",
                                 Permissions |-> "rwm"] >>]

\* C8's case: a batch of two requests, one naming no device and one naming
\* two unknown ones, answered while a device is Unhealthy.
C8_Witness ==
    /\ rpc.req = << {}, {"vf-a", "vf-b"} >>
    /\ Len(rpc.resp) = 2
    /\ HealthOf(devs) = <<Unhealthy, Healthy>>

\* C9: the inventory holds, in the order of the configuration, exactly the
\* virtual functions of the devices whose configuration succeeded, each
\* Healthy: its length is the sum of Vi over them, and the virtual functions
\* of device i follow those of the devices before it, whether or not a
\* device before it failed.
Succeeded(i) == hw[config[i]].res = "ok"
Vi(i) == IF Succeeded(i) THEN Len(hw[config[i]].vfs) ELSE 0
RECURSIVE SumVi(_)
SumVi(n) == IF n = 0 THEN 0 ELSE SumVi(n - 1) + Vi(n)
C9_BuildIsolatesFailures ==
    built =>
       /\ Len(devs) = SumVi(Len(config))
       /\ \A i \in 1..Len(config) : \A k \in 1..Vi(i) :
             devs[SumVi(i - 1) + k] =
                [ID |-> hw[config[i]].vfs[k], Health |-> Healthy]

\* C9's case: the first and the last configured device fail, at different
\* steps, and the inventory is the two virtual functions of the second.
C9_Witness ==
    /\ built
    /\ Len(config) = 3
    /\ hw[config[1]].res = "EnableSriov" /\ hw[config[3]].res = "EnableSriov"
    /\ Succeeded(2)
    /\ Len(devs) = 2

\* C10: a Serve whose Register fails (the dial or the call), and which
\* returns, returns Register's error after a Stop: the server is stopped
\* and m.server nil, the stop channel is closed and the socket file is gone.
C10_RegisterFailureStops ==
    [][\A env \in {"dial", "register"} :
          (ServeRegister(env) /\ ~crashed') =>
             /\ hist'.op = "Serve" /\ hist'.err = env
             /\ mainpc' = "idle"
             /\ server = "srv" /\ server' = "nil"
             /\ serving' = serving - 1
             /\ stop' = "closed"
             /\ sockFile' = "absent"]_vars

\* C10's case: Serve has returned the error of a failed registration call.
C10_Witness ==
    /\ mainpc = "idle"
    /\ hist.op = "Serve" /\ hist.err = "register"
    /\ server = "nil" /\ stop = "closed" /\ sockFile = "absent"


\* C11: in every run of Serve, Register is attempted only after Start has
\* returned nil, with the socket bound and the server serving; a Serve
\* whose Start fails returns that error without a registration; and the
\* registration is attempted once: after it Serve returns (or the process
\* has panicked in Stop), whatever its outcome.
C11_RegisterAfterStartOnce ==
    [][/\ (mainpc' = "register" /\ ~crashed') =>
             /\ server' = "srv" /\ sockFile' = "bound" /\ serving' > 0
             /\ mainpc = "idle" => serving' = serving + 1
       /\ \A env \in StartEnv :
             (ServeStart(env) /\ mainpc' = "idle") =>
                /\ hist'.op = "Serve" /\ hist'.err # "nil"
                /\ env # "ok" \/ sockFile = "blocked"
       /\ \A env \in RegisterEnv :
             ServeRegister(env) =>
                /\ mainpc = "register"
                /\ crashed' \/ (mainpc' = "idle" /\ hist'.op = "Serve"
                                 /\ hist'.err = Register(env))]_vars

\* C11's case: a Serve whose Start could not bind has returned with no
\* registration, and the Serve after it has started and is at Register.
C11_Witness ==
    /\ mainpc = "register"
    /\ hist.op = "Serve" /\ hist.err = "listen"
    /\ sockFile = "bound" /\ server = "srv"


\* C12: whatever the configuration (a physical device named twice
\* included) and whatever the machine (failing MAC lookups included), no
\* two devices of the built inventory have the same ID.
C12_IdsUnique ==
    built => \A i, j \in 1..Len(devs) : i # j => devs[i].ID # devs[j].ID


\* C13: Start returns nil only when the removal, the bind and the probe
\* all succeeded, and then the socket file is bound and a new server
\* serves; a failing removal, bind or probe makes Start return that error;
\* a stale file is removed before the bind, also when the bind then fails;
\* and after a failed removal or bind m.server and the servers serving are
\* as they were.
C13_StartOutcome ==
    [][\A env \in StartEnv :
          StartCall(env) =>
             /\ hist'.op = "Start"
             /\ hist'.err = "nil" =>
                   /\ sockFile # "blocked" /\ env = "ok"
                   /\ sockFile' = "bound" /\ server' = "srv"
                   /\ serving' = serving + 1
             /\ sockFile = "blocked" =>
                   /\ hist'.err = "remove" /\ sockFile' = "blocked"
                   /\ server' = server /\ serving' = serving
             /\ (sockFile # "blocked" /\ env = "listen") =>
                   /\ hist'.err = "listen" /\ sockFile' = "absent"
                   /\ server' = server /\ serving' = serving
             /\ (sockFile # "blocked" /\ env = "probe") =>
                   hist'.err = "probe"]_vars

\* C13's case: a Start that could not bind created no server, and the
\* Start after it returned nil with the socket bound and one server
\* serving.
C13_Witness ==
    /\ hist = [op |-> "Start", err |-> "nil", twice |-> TRUE]
    /\ sockFile = "bound" /\ server = "srv" /\ serving = 1
    /\ stop = "open"


\* C14: a Stop on a plugin no Start has given a server (m.server is nil,
\* no server serves, the stop channel is open) returns nil and changes
\* nothing: the stop and health channels, the devices, the server and the
\* file at the socket path, a stale one included, are as before.
C14_StopNeverStarted ==
    [][(StopCall /\ server = "nil" /\ serving = 0 /\ stop = "open") =>
          /\ hist'.op = "Stop" /\ hist'.err = "nil"
          /\ ~crashed'
          /\ stop' = "open" /\ health' = "open"
          /\ UNCHANGED <<devs, server, serving, sockFile, pc, buf, stream,
                         snd, rpc>>]_vars

\* C14's case: Stop has returned nil on a plugin never started, and the
\* stale socket file of an earlier process is still there.
C14_Witness ==
    /\ hist.op = "Stop" /\ hist.err = "nil"
    /\ sockFile = "stale"
    /\ server = "nil" /\ serving = 0 /\ stop = "open" /\ health = "open"


\* C15: a call of unhealthy returns only in the step in which a
\* ListAndWatch call waiting in its select receives the signal and marks
\* the device; and in a step from a state where no call waits in its
\* select (none was opened, or all have returned) every blocked sender
\* stays blocked and the devices are as they were.
C15_UnbufferedRendezvous ==
    [][/\ \A s \in Senders :
             (snd[s].st # "returned" /\ snd'[s].st = "returned") =>
                /\ snd[s].st = "blocked"
                /\ \E c \in Calls : pc[c] = "select" /\ pc'[c] = "send"
                /\ devs'[snd[s].dev].Health = Unhealthy
       /\ (\A c \in Calls : pc[c] # "select") =>
             /\ devs' = devs
             /\ \A s \in Senders : snd[s].st = "blocked" => snd'[s] = snd[s]]_vars

\* C15's case: one signal was received by the call, which then returned on
\* Stop; the sender of the next signal is blocked with no call left to
\* receive it, and its device is Healthy.
C15_Witness ==
    /\ pc[1] = "done" /\ \A c \in Calls \ {1} : pc[c] = "idle"
    /\ snd[1].st = "returned" /\ snd[1].dev = 1
    /\ snd[2].st = "blocked" /\ snd[2].dev = 2
    /\ HealthOf(devs) = <<Unhealthy, Healthy>>


\* C16, as stated: a Stop on a started plugin that returns has closed the
\* health channel.
C16_StopClosesHealth ==
    [][(StopCall /\ server # "nil" /\ ~crashed') => health' = "closed"]_vars

\* C16, amended: a Stop on a started plugin that returns has closed the
\* stop channel, which was open, and has left the health channel open.
C16_StopClosesStop ==
    [][(StopCall /\ server # "nil" /\ ~crashed') =>
          /\ stop = "open" /\ stop' = "closed"
          /\ health = "open" /\ health' = "open"]_vars

\* C16's case: Stop has returned on a plugin that Start had started, and a
\* server of an earlier Start is still serving.
C16_Witness ==
    /\ hist.op = "Stop" /\ hist.err = "nil" /\ ~hist.twice
    /\ stop = "closed" /\ health = "open"
    /\ server = "nil" /\ serving = 1


\* C17: the device list changes only in a step of the health branch of a
\* ListAndWatch call. A step of Start, Stop, Register or Serve (it writes
\* what the caller has seen, the server, the stop channel or the socket
\* file), of Allocate (it writes the answer), of the opening of a
\* ListAndWatch call, of its Send or of its stop branch, and the blocking
\* of a sender, leave the list (members, order, IDs and health) as it is;
\* GetDevicePluginOptions and PreStartContainer change nothing at all.
C17_DevsFrame ==
    [][/\ devs' # devs =>
             \E c \in Calls, s \in Senders : ListAndWatchHealth(c, s)
       /\ (\/ hist' # hist \/ mainpc' # mainpc \/ crashed' # crashed
           \/ server' # server \/ serving' # serving
           \/ stop' # stop \/ sockFile' # sockFile
           \/ rpc' # rpc
           \/ stream' # stream \/ buf' # buf
           \/ \E c \in Calls : \/ pc[c] = "idle" /\ pc'[c] = "send"
                               \/ pc[c] = "select" /\ pc'[c] = "done"
           \/ \E s \in Senders : snd[s].st = "idle" /\ snd'[s].st = "blocked")
             => devs' = devs]_vars

\* C17's case: the plugin was started and stopped, Allocate was answered,
\* one call has emitted twice and returned on Stop, and only the signalled
\* device has changed.
C17_Witness ==
    /\ hist.op = "Stop" /\ stop = "closed"
    /\ rpc.req = << {"vf-a"} >>
    /\ pc[1] = "done" /\ Len(stream[1]) = 2
    /\ \A c \in Calls \ {1} : pc[c] = "idle"
    /\ snd[1].st = "returned" /\ snd[1].dev = 2
    /\ \A s \in Senders \ {1} : snd[s].st = "idle"
    /\ HealthOf(devs) = <<Healthy, Unhealthy>>


\* C18: in every sequence of Start, Stop and Serve on one plugin, Stop
\* never closes a stop channel that is closed already (the close panics),
\* and a ListAndWatch call opened on a started plugin finds the stop
\* channel open, so that it stays open until the next Stop instead of
\* returning after its first emission.
C18_RestartSafe ==
    [][/\ ~crashed'
       /\ \A c \in Calls :
             (ListAndWatchCall(c) /\ server = "srv") => stop = "open"]_vars


\* C19: with several ListAndWatch calls open, a health signal is received
\* by exactly one of them: in the step that consumes it one sender returns,
\* one call leaves its select to send and the others stay where they are,
\* and the signalled device is Unhealthy. The messages emitted over all
\* streams, with those the sending calls have yet to complete, are as many
\* as the calls opened plus the signals consumed.
RECURSIVE Emissions(_)
Emissions(n) == IF n = 0 THEN 0 ELSE Emissions(n - 1) + Len(stream[n])
Opened == Cardinality({c \in Calls : pc[c] # "idle"})
Sending == Cardinality({c \in Calls : pc[c] = "send"})
C19_OneReceiverPerSignal ==
    /\ [](Emissions(MaxCalls) + Sending = Opened + Consumed)
    /\ [][Consumed' # Consumed =>
             /\ Consumed' = Consumed + 1
             /\ \E c \in Calls :
                   /\ pc[c] = "select" /\ pc'[c] = "send"
                   /\ \A o \in Calls \ {c} : pc'[o] = pc[o]
             /\ stream' = stream
             /\ \E s \in Senders :
                   /\ snd[s].st = "blocked" /\ snd'[s].st = "returned"
                   /\ devs' = [devs EXCEPT ![snd[s].dev].Health = Unhealthy]]_vars

\* C19's case: two calls wait in their selects; each has received one of
\* the two signals and re-emitted once, so the four emissions are two
\* calls plus two signals.
C19_Witness ==
    /\ pc[1] = "select" /\ pc[2] = "select"
    /\ Len(stream[1]) = 2 /\ Len(stream[2]) = 2
    /\ Consumed = 2
    /\ HealthOf(devs) = <<Unhealthy, Unhealthy>>
    /\ stop = "open"


\* C20: whenever Serve returns an error, of Start (removal, bind or probe)
\* or of Register, the server this run created is not serving (as many
\* servers serve as before the Start of this run) and the socket path
\* holds no file bound by Start.
C20_ServeErrorLeavesNothing ==
    [][/\ \A env \in StartEnv :
             (ServeStart(env) /\ mainpc' = "idle") =>
                (serving' = serving /\ sockFile' # "bound")
       /\ \A env \in RegisterEnv :
             (ServeRegister(env) /\ ~crashed' /\ hist'.err # "nil") =>
                (serving' = serving - 1 /\ sockFile' # "bound")]_vars

============================================================================
